---- MODULE Spec2Model ----
(***************************************************************************)
(* create_report.py: one run of create_report(csv_path, geojson_path,      *)
(* output_path), followed by the generated page being opened and its layer *)
(* control used.                                                           *)
(*                                                                         *)
(* Identifiers are sequences of one-character strings, so that astype(str),*)
(* str.strip() and the comparison with "Unknown" are computed, not assumed.*)
(* A table holds at least one row that is not an "Unknown" bucket, and its *)
(* cells are numbers (no missing cells).                                   *)
(***************************************************************************)
EXTENDS Integers, Sequences, FiniteSets, TLC

VARIABLES
    csv,          \* the table file, as read_csv delivers it
    geojson,      \* the geometry file, as read_file delivers it
    pc,           \* the section of create_report about to run
    error,        \* the section an exception was raised in, "" when none
    df, gdf, months, data_layers, max_vals, colormaps, merged,
    m,            \* the folium map under construction
    legend_js,    \* the branches of the legend-switching script
    color,        \* the local variable color of the polygon loop
    outfile,      \* the content of output_path, <<>> while never written
    page          \* the saved document opened in a browser

vars == <<csv, geojson, pc, error, df, gdf, months, data_layers, max_vals,
          colormaps, merged, m, legend_js, color, outfile, page>>

mem == <<df, gdf, months, data_layers, max_vals, colormaps, merged, m,
         legend_js, color>>

\* Largest request count of a table cell.
MaxVal == 1

----------------------------------------------------------------------------
\* Strings

Range(s) == {s[i] : i \in 1..Len(s)}

DigitChars == <<"0", "1", "2", "3", "4", "5", "6", "7", "8", "9">>

RECURSIVE IntToStr(_)
\* str(n) of a non-negative integer: decimal digits, no leading zeros.
IntToStr(n) ==
    IF n < 10 THEN <<DigitChars[n + 1]>>
    ELSE IntToStr(n \div 10) \o <<DigitChars[(n % 10) + 1]>>

IsSpace(c) == c = " "

RECURSIVE LStrip(_)
LStrip(s) == IF s # <<>> /\ IsSpace(Head(s)) THEN LStrip(Tail(s)) ELSE s

RECURSIVE RStrip(_)
RStrip(s) ==
    IF s # <<>> /\ IsSpace(s[Len(s)]) THEN RStrip(SubSeq(s, 1, Len(s) - 1)) ELSE s

\* str.strip(): leading and trailing whitespace removed, the rest untouched.
Strip(s) == RStrip(LStrip(s))

\* The literal "Unknown".
UnknownStr == <<"U", "n", "k", "n", "o", "w", "n">>
\* The literal "Aggregate" names a column; column names are atomic strings.

\* Values as the readers deliver them: an integer, or a text.
IntId(n) == [kind |-> "int", val |-> n, chars |-> <<>>]
StrId(s) == [kind |-> "str", val |-> 0, chars |-> s]

\* Series.astype(str) on one value (lines 54-55).
AsTypeStr(raw) == IF raw.kind = "int" THEN IntToStr(raw.val) ELSE raw.chars

----------------------------------------------------------------------------
\* Inputs

\* Column headers of the CSV after the index column.
Headers == { <<"Jan", "Unknown", "Feb">>, <<"Aggregate", "Jan">> }

\* Index columns of the CSV as read_csv delivers them: all integers when every
\* cell is numeric, all text otherwise.
TableIndexes ==
    { <<IntId(7)>>,
      <<IntId(7), IntId(8)>>,
      <<StrId(<<"7">>), StrId(UnknownStr)>>,
      <<StrId(<<" ", "7">>), StrId(<<" ">> \o UnknownStr \o <<" ">>)>>,
      <<StrId(<<"7">>), StrId(<<"U", "N", "K", "N", "O", "W", "N">>)>>,
      <<StrId(<<"0", "7">>), StrId(<<" ", "u", "n", "k", "n", "o", "w", "n", " ">>)>> }

\* ZIPNUM properties of the features of the GeoJSON file, in file order.
GeoIndexes ==
    { <<IntId(7)>>,
      <<IntId(7), IntId(8)>>,
      <<StrId(<<"7">>), StrId(<<"8">>)>>,
      <<StrId(<<"0", "7">>), StrId(<<"7">>)>>,
      <<StrId(<<"7", " ">>)>>,
      <<StrId(<<"7">>), StrId(UnknownStr)>> }

Tables ==
    UNION { { [columns |-> h,
               rows |-> [i \in 1..Len(ix) |-> [id |-> ix[i], vals |-> f[i]]]] :
              f \in [1..Len(ix) -> [Range(h) -> 0..MaxVal]] } :
            <<h, ix>> \in Headers \X TableIndexes }

Geometries ==
    { [i \in 1..Len(ix) |-> [ZIPNUM |-> ix[i], geometry |-> i]] : ix \in GeoIndexes }

NoMap == [layers |-> <<>>, html |-> <<>>, control |-> FALSE, script |-> <<>>]
NoPage == [phase |-> "closed", visible |-> {}, legend |-> <<>>, last |-> ""]
NoFrame == [columns |-> <<>>, rows |-> <<>>]

Init ==
    /\ csv \in Tables
    /\ geojson \in Geometries
    /\ pc = "load"
    /\ error = ""
    /\ df = NoFrame
    /\ gdf = <<>>
    /\ months = <<>>
    /\ data_layers = <<>>
    /\ max_vals = <<>>
    /\ colormaps = <<>>
    /\ merged = <<>>
    /\ m = NoMap
    /\ legend_js = <<>>
    /\ color = <<>>
    /\ outfile = <<>>
    /\ page = NoPage

----------------------------------------------------------------------------
\* Load and preprocess (lines 50-55)

\* csv and geojson hold what read_csv and read_file deliver; astype(str) then
\* turns every identifier into text.
Load ==
    /\ pc = "load"
    /\ df' = [columns |-> csv.columns,
              rows |-> [i \in 1..Len(csv.rows) |->
                          [id |-> AsTypeStr(csv.rows[i].id),
                           vals |-> csv.rows[i].vals]]]
    /\ gdf' = [i \in 1..Len(geojson) |->
                  [ZIPNUM |-> AsTypeStr(geojson[i].ZIPNUM),
                   geometry |-> geojson[i].geometry]]
    /\ pc' = "aggregate"
    /\ UNCHANGED <<csv, geojson, error, months, data_layers, max_vals, colormaps,
                   merged, m, legend_js, color, outfile, page>>

----------------------------------------------------------------------------
\* Aggregate column, layers and maxima (lines 57-69)

\* Faulty variant: the "Unknown" column is not left out of the months.
MonthsAllColumns(columns) == columns

\* [col for col in df.columns if col != "Unknown"]
MonthsWithoutAggregate(columns) == SelectSeq(columns, LAMBDA c : c # "Unknown")

\* [col for col in df.columns if col not in ["Unknown", "Aggregate"]]
MonthsWithAggregate(columns) ==
    SelectSeq(columns, LAMBDA c : c \notin {"Unknown", "Aggregate"})

RECURSIVE SumAxis1(_, _)
\* df[cols].sum(axis=1) for one row.
SumAxis1(vals, cols) ==
    IF cols = <<>> THEN 0 ELSE vals[Head(cols)] + SumAxis1(vals, Tail(cols))

\* df["Aggregate"] = ... : a new last column.
WithColumn(frame, name, cols) ==
    [columns |-> Append(frame.columns, name),
     rows |-> [i \in 1..Len(frame.rows) |->
                 [id |-> frame.rows[i].id,
                  vals |-> [c \in Range(frame.columns) \cup {name} |->
                              IF c = name THEN SumAxis1(frame.rows[i].vals, cols)
                              ELSE frame.rows[i].vals[c]]]]]

\* Faulty variant: the identifier is compared without str.strip().
IsUnknownExact(id) == id = UnknownStr

\* df.index.to_series().str.strip().eq("Unknown")
IsUnknown(id) == Strip(id) = UnknownStr

\* df.loc[~...]
DfNoUnknown(frame) == SelectSeq(frame.rows, LAMBDA r : ~IsUnknown(r.id))

\* Series.max() of a non-empty column.
SeriesMax(rows, col) ==
    CHOOSE v \in {rows[i].vals[col] : i \in 1..Len(rows)} :
        \A i \in 1..Len(rows) : rows[i].vals[col] <= v

Aggregate ==
    /\ pc = "aggregate"
    /\ LET hasAgg == "Aggregate" \in Range(df.columns)
           ms == IF hasAgg THEN MonthsWithAggregate(df.columns)
                 ELSE MonthsWithoutAggregate(df.columns)
           frame == IF hasAgg THEN df ELSE WithColumn(df, "Aggregate", ms)
           layers == <<"Aggregate">> \o ms
       IN /\ months' = ms
          /\ df' = frame
          /\ data_layers' = layers
          /\ max_vals' = [col \in Range(layers) |-> SeriesMax(DfNoUnknown(frame), col)]
    /\ pc' = "colormaps"
    /\ UNCHANGED <<csv, geojson, error, gdf, colormaps, merged, m, legend_js, color,
                   outfile, page>>

----------------------------------------------------------------------------
\* Colormap setup (lines 74-92)

\* A colour: the gradient it is taken from, the gradient's domain, the value it
\* is taken at, and the opacity it is blended with against white (percent).
Colour(name, vmin, vmax, x) ==
    [name |-> name, vmin |-> vmin, vmax |-> vmax, x |-> x, alpha |-> 100]

White == Colour("white", 0, 0, 0)

\* LinearColormap(colors=[3 blues], vmin=1, vmax=max_vals[col])
LinearColormap(vmax) == [name |-> "blues3", vmin |-> 1, vmax |-> vmax]

\* linear.Blues_09.scale(1, vmax)
Blues09Scale(vmax) == [name |-> "Blues_09", vmin |-> 1, vmax |-> vmax]

\* colormap(x)
ColourAt(cm, x) == Colour(cm.name, cm.vmin, cm.vmax, x)

\* simulate_opacity(hex_color, alpha)
SimulateOpacity(c, alpha) == [c EXCEPT !.alpha = alpha]

Colormaps ==
    /\ pc = "colormaps"
    /\ colormaps' = [col \in Range(data_layers) |-> LinearColormap(max_vals[col])]
    /\ pc' = "merge"
    /\ UNCHANGED <<csv, geojson, error, df, gdf, months, data_layers, max_vals, merged,
                   m, legend_js, color, outfile, page>>

----------------------------------------------------------------------------
\* Merge ZIP geometry with request data (lines 97-103)

\* A missing cell of the joined frame.
NaN == 0 - 1

MatchesOf(frame, zip) == SelectSeq(frame.rows, LAMBDA r : r.id = zip)

\* Faulty variant, how="inner": a geometry without a table row yields nothing.
InnerRows(g, frame) ==
    [k \in 1..Len(MatchesOf(frame, g.ZIPNUM)) |->
        [ZIPNUM |-> g.ZIPNUM, geometry |-> g.geometry,
         vals |-> MatchesOf(frame, g.ZIPNUM)[k].vals]]

\* The rows a left join yields for one geometry: one per matching table row,
\* or a single row of missing cells.
LeftRows(g, frame) ==
    IF MatchesOf(frame, g.ZIPNUM) = <<>>
    THEN << [ZIPNUM |-> g.ZIPNUM, geometry |-> g.geometry,
             vals |-> [c \in Range(frame.columns) |-> NaN]] >>
    ELSE [k \in 1..Len(MatchesOf(frame, g.ZIPNUM)) |->
            [ZIPNUM |-> g.ZIPNUM, geometry |-> g.geometry,
             vals |-> MatchesOf(frame, g.ZIPNUM)[k].vals]]

RECURSIVE MergeLeft(_, _)
\* gdf.merge(df, how="left", left_on="ZIPNUM", right_index=True)
MergeLeft(geoms, frame) ==
    IF geoms = <<>> THEN <<>>
    ELSE LeftRows(Head(geoms), frame) \o MergeLeft(Tail(geoms), frame)

\* merged[col].fillna(0) for every (numeric) column of df.
FillNa(rows, columns) ==
    [i \in 1..Len(rows) |->
        [rows[i] EXCEPT !.vals = [c \in DOMAIN rows[i].vals |->
            IF c \in Range(columns) /\ rows[i].vals[c] = NaN THEN 0
            ELSE rows[i].vals[c]]]]

Merge ==
    /\ pc = "merge"
    /\ merged' = FillNa(MergeLeft(gdf, df), df.columns)
    /\ pc' = "layers"
    /\ UNCHANGED <<csv, geojson, error, df, gdf, months, data_layers, max_vals,
                   colormaps, m, legend_js, color, outfile, page>>

----------------------------------------------------------------------------
\* Build each data layer (lines 122-196)

\* Faulty variant: overlay left at folium's default, True.
FeatureGroupOverlay(layer_name) ==
    [name |-> layer_name, show |-> (layer_name = "Aggregate"), overlay |-> TRUE,
     control |-> TRUE, polygons |-> <<>>, markers |-> <<>>]

\* folium.FeatureGroup(name=layer_name, show=(layer_name == "Aggregate"),
\*                     overlay=False, control=True)
FeatureGroup(layer_name) ==
    [name |-> layer_name, show |-> (layer_name = "Aggregate"), overlay |-> FALSE,
     control |-> TRUE, polygons |-> <<>>, markers |-> <<>>]

\* color = "white" if is_zero else colormaps[layer_name](value)
FillColour(layer_name, value) ==
    IF value = 0 THEN White ELSE ColourAt(colormaps[layer_name], value)

\* One folium.GeoJson of the polygon loop: the style function keeps the colour
\* of its own iteration as the default of its parameter color.
Polygon(row, layer_name) ==
    [geometry |-> row.geometry,
     zip |-> row.ZIPNUM,
     color_default |-> FillColour(layer_name, row.vals[layer_name]),
     requests |-> row.vals[layer_name]]

\* One folium.map.Marker of the label loop.
Marker(row, layer_name) ==
    [centroid |-> row.geometry, text |-> row.vals[layer_name]]

\* Faulty variant, lambda _: {"fillColor": color, ...}: the variable color of
\* the enclosing scope is read when the style function is called.
StyleLateBound(polygon, scope_color) == scope_color

\* style_function(feature)["fillColor"]: the parameter's default, not the
\* variable color of the enclosing scope at the time of the call.
StyleFillColor(polygon, scope_color) == polygon.color_default

\* int(df.loc["Unknown", layer_name]) if "Unknown" in df.index else 0
UnknownCount(frame, layer_name) ==
    IF \E i \in 1..Len(frame.rows) : frame.rows[i].id = UnknownStr
    THEN frame.rows[CHOOSE i \in 1..Len(frame.rows) :
                        frame.rows[i].id = UnknownStr].vals[layer_name]
    ELSE 0

\* svg_legend followed by the "Unknown ZIPs" line.
LegendHtml(grad, cm, vmax, unknown) ==
    [grad |-> grad,
     start_color |-> SimulateOpacity(ColourAt(cm, 1), 70),
     end_color |-> SimulateOpacity(ColourAt(cm, vmax), 70),
     low |-> 1,
     high |-> vmax,
     unknown |-> unknown]

\* if (e.name === "<layer_name>") { ...innerHTML = `...`; }
LegendBranch(layer_name) ==
    [name |-> layer_name,
     html |-> LegendHtml(layer_name, colormaps[layer_name], max_vals[layer_name],
                         UnknownCount(df, layer_name))]

BuildLayer ==
    /\ pc = "layers"
    /\ LET layer_name == data_layers[Len(m.layers) + 1]
           group == [FeatureGroup(layer_name) EXCEPT
                       !.polygons = [i \in 1..Len(merged) |->
                                        Polygon(merged[i], layer_name)],
                       !.markers = [i \in 1..Len(merged) |->
                                        Marker(merged[i], layer_name)]]
       IN /\ m' = [m EXCEPT !.layers = Append(@, group)]
          /\ color' = IF merged = <<>> THEN color
                      ELSE FillColour(layer_name, merged[Len(merged)].vals[layer_name])
          /\ legend_js' = Append(legend_js, LegendBranch(layer_name))
          /\ pc' = IF Len(m.layers) + 1 = Len(data_layers) THEN "legend" ELSE "layers"
    /\ UNCHANGED <<csv, geojson, error, df, gdf, months, data_layers, max_vals,
                   colormaps, merged, outfile, page>>

----------------------------------------------------------------------------
\* Initial legend content (lines 201-232)

initial_layer == "Aggregate"

Legend ==
    /\ pc = "legend"
    /\ m' = [m EXCEPT !.html = Append(@,
                [id |-> "dynamic-legend",
                 content |-> LegendHtml(initial_layer,
                                        Blues09Scale(max_vals[initial_layer]),
                                        max_vals[initial_layer],
                                        UnknownCount(df, initial_layer))])]
    /\ pc' = "script"
    /\ UNCHANGED <<csv, geojson, error, df, gdf, months, data_layers, max_vals,
                   colormaps, merged, legend_js, color, outfile, page>>

----------------------------------------------------------------------------
\* Layer control and legend interactivity (lines 237-256)

Script ==
    /\ pc = "script"
    /\ m' = [m EXCEPT !.control = TRUE,
                      !.script = [on_baselayerchange |-> legend_js,
                                  onload_event |-> [name |-> initial_layer],
                                  onload_js |-> legend_js]]
    /\ pc' = "save"
    /\ UNCHANGED <<csv, geojson, error, df, gdf, months, data_layers, max_vals,
                   colormaps, merged, legend_js, color, outfile, page>>

----------------------------------------------------------------------------
\* m.save(output_path) (line 258)

\* The document: every layer with its polygons styled by their style functions.
Render(map, scope_color) ==
    [layers |-> [i \in 1..Len(map.layers) |->
                   [name |-> map.layers[i].name,
                    show |-> map.layers[i].show,
                    overlay |-> map.layers[i].overlay,
                    control |-> map.layers[i].control,
                    polygons |-> [k \in 1..Len(map.layers[i].polygons) |->
                        [geometry |-> map.layers[i].polygons[k].geometry,
                         zip |-> map.layers[i].polygons[k].zip,
                         fillColor |-> StyleFillColor(map.layers[i].polygons[k],
                                                      scope_color),
                         requests |-> map.layers[i].polygons[k].requests]],
                    markers |-> map.layers[i].markers]],
     html |-> map.html,
     control |-> map.control,
     script |-> map.script]

\* Faulty variant: m.save(output_path) placed before the legend is assembled.
SaveBeforeLegend ==
    /\ pc = "legend"
    /\ outfile = <<>>
    /\ outfile' = Render(m, color)
    /\ UNCHANGED <<csv, geojson, pc, error, mem, page>>

Save ==
    /\ pc = "save"
    /\ outfile' = Render(m, color)
    /\ pc' = "done"
    /\ UNCHANGED <<csv, geojson, error, mem, page>>

\* An exception raised in any section ends the run: nothing handles it, and
\* what was assembled in memory is gone with the process.
Fail ==
    /\ pc \in {"load", "aggregate", "colormaps", "merge", "layers", "legend",
               "script", "save"}
    /\ error' = pc
    /\ pc' = "failed"
    /\ df' = NoFrame
    /\ gdf' = <<>>
    /\ months' = <<>>
    /\ data_layers' = <<>>
    /\ max_vals' = <<>>
    /\ colormaps' = <<>>
    /\ merged' = <<>>
    /\ m' = NoMap
    /\ legend_js' = <<>>
    /\ color' = <<>>
    /\ UNCHANGED <<csv, geojson, outfile, page>>

----------------------------------------------------------------------------
\* The saved document in a browser

\* The layers the control lists.
ControlLayers(doc) ==
    {doc.layers[i].name : i \in {k \in 1..Len(doc.layers) : doc.layers[k].control}}

LayerNamed(doc, name) ==
    doc.layers[CHOOSE i \in 1..Len(doc.layers) : doc.layers[i].name = name]

BaseLayers(doc) ==
    {doc.layers[i].name : i \in {k \in 1..Len(doc.layers) : ~doc.layers[k].overlay}}

RECURSIVE RunLegendJsAssign(_, _, _)
\* Faulty variant, if (e.name = "..."): every branch runs, the last one wins.
RunLegendJsAssign(js, name, current) ==
    IF js = <<>> THEN current
    ELSE RunLegendJsAssign(Tail(js), name, Head(js).html)

RECURSIVE RunLegendJs(_, _, _)
\* The branches of legend_js run in order against one event.
RunLegendJs(js, name, current) ==
    IF js = <<>> THEN current
    ELSE RunLegendJs(Tail(js), name,
                     IF name = Head(js).name THEN Head(js).html ELSE current)

\* The document is parsed: the layers with show=True are on the map, and the
\* legend element holds its static content.
Open ==
    /\ pc = "done"
    /\ page.phase = "closed"
    /\ page' = [phase |-> "parsed",
                visible |-> {outfile.layers[i].name :
                               i \in {k \in 1..Len(outfile.layers) :
                                        outfile.layers[k].show}},
                legend |-> outfile.html[1].content,
                last |-> ""]
    /\ UNCHANGED <<csv, geojson, pc, error, mem, outfile>>

\* window.onload: the listener is registered and the legend branches run once
\* against { name: "Aggregate" }.
WindowOnload ==
    /\ page.phase = "parsed"
    /\ page' = [page EXCEPT
                  !.phase = "ready",
                  !.last = outfile.script.onload_event.name,
                  !.legend = RunLegendJs(outfile.script.onload_js,
                                         outfile.script.onload_event.name, @)]
    /\ UNCHANGED <<csv, geojson, pc, error, mem, outfile>>

\* A click in the layer control: a base layer replaces the base layer shown
\* and fires baselayerchange, an overlay is toggled.
SelectLayer ==
    /\ page.phase = "ready"
    /\ outfile.control
    /\ \E name \in ControlLayers(outfile) :
          page' = IF LayerNamed(outfile, name).overlay
                  THEN [page EXCEPT !.visible =
                           IF name \in @ THEN @ \ {name} ELSE @ \cup {name}]
                  ELSE [page EXCEPT
                           !.visible = (@ \ BaseLayers(outfile)) \cup {name},
                           !.last = name,
                           !.legend = RunLegendJs(outfile.script.on_baselayerchange,
                                                  name, @)]
    /\ UNCHANGED <<csv, geojson, pc, error, mem, outfile>>

----------------------------------------------------------------------------
Next ==
    \/ Load
    \/ Aggregate
    \/ Colormaps
    \/ Merge
    \/ BuildLayer
    \/ Legend
    \/ Script
    \/ Save
    \/ Fail
    \/ Open
    \/ WindowOnload
    \/ SelectLayer

Spec == Init /\ [][Next]_vars

----------------------------------------------------------------------------
\* Properties

Max2(a, b) == IF a >= b THEN a ELSE b

RECURSIVE SumOver(_, _)
\* The sum of vals over a set of columns.
SumOver(vals, S) ==
    IF S = {} THEN 0
    ELSE LET c == CHOOSE x \in S : TRUE IN vals[c] + SumOver(vals, S \ {c})

PeriodColumns == Range(csv.columns) \ {"Unknown", "Aggregate"}

Aggregated == pc \in {"colormaps", "merge", "layers", "legend", "script", "save", "done"}
Mapped == pc \in {"merge", "layers", "legend", "script", "save", "done"}
Joined == pc \in {"layers", "legend", "script", "save", "done"}

\* C1: when the table has no "Aggregate" column, after the aggregation step
\* every row's Aggregate is the sum of that row's period columns (all columns
\* but "Unknown" and "Aggregate").
C1_AggregateIsPeriodSum ==
    (Aggregated /\ "Aggregate" \notin Range(csv.columns)) =>
        /\ Len(df.rows) = Len(csv.rows)
        /\ \A i \in 1..Len(csv.rows) :
              df.rows[i].vals["Aggregate"] = SumOver(csv.rows[i].vals, PeriodColumns)

C1_Witness ==
    /\ Aggregated
    /\ "Aggregate" \notin Range(csv.columns)
    /\ Cardinality(PeriodColumns) = 2
    /\ \E i \in 1..Len(csv.rows) :
          /\ csv.rows[i].vals["Unknown"] > 0
          /\ \A c \in PeriodColumns : csv.rows[i].vals[c] > 0
          /\ df.rows[i].vals["Aggregate"] = 2

LowerChar(c) ==
    CASE c = "U" -> "u" [] c = "N" -> "n" [] c = "K" -> "k" [] c = "O" -> "o"
      [] c = "W" -> "w" [] OTHER -> c

Lower(s) == [i \in 1..Len(s) |-> LowerChar(s[i])]

\* The identifier reads "unknown" once trimmed and lower-cased.
NormalizesToUnknown(id) == Lower(Strip(id)) = Lower(UnknownStr)

\* The identifier reads "Unknown" once trimmed, case kept.
TrimsToUnknown(id) == Strip(id) = UnknownStr

\* v is the largest value of column col among the rows of the table that
\* Excluded does not exclude.
IsMaxOfKept(v, col, Excluded(_)) ==
    /\ \A i \in 1..Len(df.rows) :
          ~Excluded(df.rows[i].id) => df.rows[i].vals[col] <= v
    /\ \E i \in 1..Len(df.rows) :
          ~Excluded(df.rows[i].id) /\ df.rows[i].vals[col] = v

\* C2 as claimed: every layer's maximum is taken over the rows whose identifier
\* does not normalize to "unknown", ignoring case and whitespace.
C2_MaxExcludesAnyCaseUnknown ==
    Aggregated => \A l \in Range(data_layers) :
                     IsMaxOfKept(max_vals[l], l, NormalizesToUnknown)

\* C2 amended: every layer's maximum is taken over the rows whose identifier,
\* with surrounding whitespace trimmed, is not exactly "Unknown" (case matters).
C2_MaxExcludesTrimmedUnknown ==
    Aggregated => \A l \in Range(data_layers) :
                     IsMaxOfKept(max_vals[l], l, TrimsToUnknown)

C2_Witness ==
    /\ Aggregated
    /\ \E l \in Range(data_layers), i \in 1..Len(df.rows) :
          /\ df.rows[i].id # UnknownStr
          /\ TrimsToUnknown(df.rows[i].id)
          /\ df.rows[i].vals[l] > max_vals[l]

\* The table has a row whose identifier, as text, is the geometry's.
HasTableRow(g) ==
    \E i \in 1..Len(csv.rows) : AsTypeStr(csv.rows[i].id) = AsTypeStr(g.ZIPNUM)

\* C3: every geometry of the input is drawn in every layer of the document,
\* and a geometry without a table row shows 0 in its tooltip and its label in
\* every layer.
C3_AllGeometriesZeroWhenUnmatched ==
    pc = "done" =>
        /\ Len(outfile.layers) = Len(data_layers)
        /\ \A i \in 1..Len(outfile.layers), g \in 1..Len(geojson) :
              /\ \E k \in 1..Len(outfile.layers[i].polygons) :
                    outfile.layers[i].polygons[k].geometry = g
              /\ \E k \in 1..Len(outfile.layers[i].markers) :
                    outfile.layers[i].markers[k].centroid = g
              /\ ~HasTableRow(geojson[g]) =>
                    /\ \A k \in 1..Len(outfile.layers[i].polygons) :
                          outfile.layers[i].polygons[k].geometry = g =>
                              outfile.layers[i].polygons[k].requests = 0
                    /\ \A k \in 1..Len(outfile.layers[i].markers) :
                          outfile.layers[i].markers[k].centroid = g =>
                              outfile.layers[i].markers[k].text = 0

C3_Witness ==
    /\ pc = "done"
    /\ \E g \in 1..Len(geojson) : ~HasTableRow(geojson[g])
    /\ \E g \in 1..Len(geojson), k \in 1..Len(outfile.layers[1].polygons) :
          /\ HasTableRow(geojson[g])
          /\ outfile.layers[1].polygons[k].geometry = g
          /\ outfile.layers[1].polygons[k].requests > 0

\* C4 as claimed: every layer's colour scale has the domain
\* [1, max(1, computed maximum)], also as the legend shows it.
C4_DomainGuarded ==
    /\ Mapped => \A l \in Range(data_layers) :
                    /\ colormaps[l].vmin = 1
                    /\ colormaps[l].vmax = Max2(1, max_vals[l])
    /\ \A i \in 1..Len(legend_js) :
          /\ legend_js[i].html.low = 1
          /\ legend_js[i].html.high = Max2(1, max_vals[legend_js[i].name])

\* C5: a polygon is filled white exactly when its own region's value in the
\* layer is 0, and with the layer's scale colour at that value otherwise.
C5_FillColourOfOwnRegion ==
    pc = "done" =>
        \A i \in 1..Len(outfile.layers) :
            /\ Len(outfile.layers[i].polygons) = Len(merged)
            /\ \A k \in 1..Len(merged) :
                  LET value == merged[k].vals[outfile.layers[i].name]
                      fill == outfile.layers[i].polygons[k].fillColor
                  IN /\ outfile.layers[i].polygons[k].geometry = merged[k].geometry
                     /\ (fill = White) <=> (value = 0)
                     /\ value # 0 =>
                           fill = Colour("blues3", 1,
                                         max_vals[outfile.layers[i].name], value)

C5_Witness ==
    /\ pc = "done"
    /\ \E i \in 1..Len(outfile.layers) :
          /\ Len(outfile.layers[i].polygons) = 2
          /\ outfile.layers[i].polygons[1].fillColor # White
          /\ outfile.layers[i].polygons[2].fillColor = White

C8_UnknownOnlyInLegend ==
    pc = "done" =>
        /\ \A i \in 1..Len(legend_js) :
              \/ \E r \in 1..Len(csv.rows) :
                    /\ AsTypeStr(csv.rows[r].id) = UnknownStr
                    /\ legend_js[i].html.unknown = df.rows[r].vals[legend_js[i].name]
              \/ /\ \A r \in 1..Len(csv.rows) : AsTypeStr(csv.rows[r].id) # UnknownStr
                 /\ legend_js[i].html.unknown = 0
        /\ \A i \in 1..Len(outfile.layers) :
              \A k \in 1..Len(outfile.layers[i].polygons) :
                  ~ \E r \in 1..Len(df.rows) :
                        /\ df.rows[r].id = UnknownStr
                        /\ outfile.layers[i].polygons[k].zip = df.rows[r].id
        /\ \A l \in Range(data_layers) : IsMaxOfKept(max_vals[l], l, TrimsToUnknown)

\* The canonical form of an identifier: its text, surrounding whitespace
\* trimmed, leading zeros kept.
Canonical(raw) == Strip(AsTypeStr(raw))

\* C9 as claimed: a geometry and a table row whose identifiers have the same
\* canonical form are joined, and the region carries that row's values.
C9_JoinOnCanonicalIdentifier ==
    Joined =>
        \A g \in 1..Len(geojson), r \in 1..Len(csv.rows) :
            Canonical(geojson[g].ZIPNUM) = Canonical(csv.rows[r].id) =>
                \E k \in 1..Len(merged) :
                    /\ merged[k].geometry = g
                    /\ merged[k].vals = df.rows[r].vals

====
